---- MODULE Spec2Model ----
(***************************************************************************)
(* A model of the data_ingestion client library                            *)
(* (src/src/data_ingestion/ingestion.py): the process-wide base URL, the   *)
(* metadata template generator and the upload, search and download         *)
(* clients, run against a local filesystem and a backend whose answers     *)
(* (status, body, headers, transport failures) are nondeterministic.       *)
(*                                                                         *)
(* One caller runs the file and network operations one at a time; each is  *)
(* split at the points where it blocks (filesystem, network).  The base    *)
(* URL is a module global, so set_api_url may run from another thread      *)
(* between any two steps of a call.                                        *)
(***************************************************************************)
EXTENDS Integers, Sequences, FiniteSets, TLC

VARIABLES
    API_BASE_URL,   \* the module global, ingestion.py:11
    lastSet,        \* history: the argument of the latest set_api_url (initially the configured default)
    fs,             \* the local filesystem: path -> node
    pc,             \* where the caller is: "done" between calls, else a step of the running call
    op,             \* the operation of the current (or last finished) call
    args,           \* its arguments
    urlAtCall,      \* history: API_BASE_URL when the current call was started
    target_url,     \* the local variable target_url of the running call
    handles,        \* upload_file: the binary handles of files_arguments
    requests,       \* the HTTP requests the current call has issued, in order
    result,         \* what the transport gave for the last request: a response or a failure
    outcome         \* how the last finished call ended: a return value or a raised exception

vars == <<API_BASE_URL, lastSet, fs, pc, op, args, urlAtCall, target_url,
          handles, requests, result, outcome>>

-----------------------------------------------------------------------------
(* Bounds and input sets *)

\* the longest response body streamed by download_file, in chunks
MaxChunks == 2

DefaultUrl == "http://localhost:8001"
Urls == {DefaultUrl, "http://lake.example", "http://lake.example/api"}
NoUrl == "<unset>"

FileIds == {"f1"}
Statuses == {201, 304, 422}
NetFailures == {"ConnectionError", "Timeout"}

-----------------------------------------------------------------------------
(* Paths and the filesystem.  A path is the sequence of its components;    *)
(* relative paths are relative to the working directory, <<>>.             *)

Cwd == <<>>
HomeDir == <<"home">>
ProjDir == <<"proj">>

\* Path.home() / "Downloads"
DefaultDownloads == Append(HomeDir, "Downloads")

\* f"{file_id}.dat"
DatName(file_id) == file_id \o ".dat"

ServerNames == {"srv.bin"}
DownloadNames == ServerNames \cup {DatName(i) : i \in FileIds}

MetaPaths == {<<"meta.yaml">>, <<"proj", "meta.yaml">>}
DataPaths == {<<"data.bin">>}
OutPath == <<"proj", "out.bin">>

AllPaths ==
    {Cwd, HomeDir, DefaultDownloads, ProjDir, OutPath} \cup MetaPaths \cup DataPaths
    \cup {Append(DefaultDownloads, n) : n \in DownloadNames}

\* os.path.dirname / Path.parent
Parent(p) == IF p = <<>> THEN <<>> ELSE SubSeq(p, 1, Len(p) - 1)

\* file contents: a named document, or the first n chunks of a streamed body
NoNode == [kind |-> "none", doc |-> "", n |-> 0]
DirNode == [kind |-> "dir", doc |-> "", n |-> 0]
Doc(name) == [kind |-> "file", doc |-> name, n |-> 0]
Streamed(k) == [kind |-> "file", doc |-> "download", n |-> k]

\* os.path.exists
Exists(f, p) == f[p].kind # "none"
\* Path.is_dir
IsDir(f, p) == f[p].kind = "dir"
IsFile(f, p) == f[p].kind = "file"

\* os.makedirs(p, exist_ok=True) / Path.mkdir(parents=True, exist_ok=True):
\* creates p and its missing ancestors; fails when p or an ancestor is a file
RECURSIVE MakeDirs(_, _)
MakeDirs(f, p) ==
    IF IsDir(f, p) THEN [ok |-> TRUE, fs |-> f]
    ELSE IF Exists(f, p) THEN [ok |-> FALSE, fs |-> f]
    ELSE LET up == MakeDirs(f, Parent(p)) IN
         IF up.ok THEN [ok |-> TRUE, fs |-> [up.fs EXCEPT ![p] = DirNode]]
         ELSE [ok |-> FALSE, fs |-> f]

\* open(p, "w") / open(p, "wb"): creates or truncates the file; fails when p
\* is a directory or its parent is not one
CanOpenWrite(f, p) == /\ ~IsDir(f, p)
                      /\ IsDir(f, Parent(p))

\* open(p, "r"): fails when p is not a regular file
CanOpenRead(f, p) == IsFile(f, p)

\* the filesystem is a tree: what exists lies in a directory
WellFormed(f) == \A p \in AllPaths : Exists(f, p) /\ p # Cwd => IsDir(f, Parent(p))

-----------------------------------------------------------------------------
(* YAML metadata documents and yaml.safe_load *)

None == "<None>"

TemplateDoc == "TEMPLATE"
MetaDocs == {"VALID", "NOAUTHOR", "LIST", "BAD", TemplateDoc}

\* yaml.safe_load on a document: the value it returns, or a parse exception
SafeLoad(doc) ==
    CASE doc = "VALID" ->
           [ok |-> TRUE, isdict |-> TRUE,
            map |-> [research_project_id |-> "Frequency Sweep", author |-> "wkm2109"]]
      [] doc = "NOAUTHOR" ->
           [ok |-> TRUE, isdict |-> TRUE,
            map |-> [research_project_id |-> "Frequency Sweep", custom_tags |-> "2V"]]
      [] doc = TemplateDoc ->
           [ok |-> TRUE, isdict |-> TRUE,
            map |-> [research_project_id |-> "", author |-> "", experiment_type |-> "",
                     date_conducted |-> "", custom_tags |-> ""]]
      [] doc = "LIST" ->
           [ok |-> TRUE, isdict |-> FALSE, map |-> [item |-> "a"]]
      [] OTHER ->
           [ok |-> FALSE, isdict |-> FALSE, map |-> [item |-> ""]]

\* dict.get(key)
Get(map, key) == IF key \in DOMAIN map THEN map[key] ELSE None

\* Python truthiness of a string-or-None value
Truthy(v) == v # None /\ v # ""

-----------------------------------------------------------------------------
(* HTTP responses and response.json() *)

IdBody == "{\"id\": \"abc\"}"
DetailBody == "{\"detail\": \"bad file\"}"
EmptyListBody == "[]"
RowsBody == "[{\"file_id\": \"f1\", \"date_conducted\": \"not-a-date\"}, {\"file_id\": \"f2\", \"date_conducted\": \"2025-01-15\"}]"
TextBody == "Internal Server Error"

NoJson == [type |-> "none", id |-> None, detail |-> None, dates |-> <<>>]

\* response.json(): the parsed document, or a decode failure
ParseJson(text) ==
    CASE text = IdBody ->
           [ok |-> TRUE, val |-> [type |-> "object", id |-> "abc", detail |-> None, dates |-> <<>>]]
      [] text = DetailBody ->
           [ok |-> TRUE, val |-> [type |-> "object", id |-> None, detail |-> "bad file", dates |-> <<>>]]
      [] text = EmptyListBody ->
           [ok |-> TRUE, val |-> [type |-> "array", id |-> None, detail |-> None, dates |-> <<>>]]
      [] text = RowsBody ->
           [ok |-> TRUE, val |-> [type |-> "array", id |-> None, detail |-> None,
                                  dates |-> <<"not-a-date", "2025-01-15">>]]
      [] OTHER -> [ok |-> FALSE, val |-> NoJson]

\* a content-disposition header, as the pieces around its "filename=" marks:
\* <<>> is no header, one piece a header without "filename="
NoHeader == <<>>
Piece(text, quoted) == [text |-> text, quoted |-> quoted]
Dispositions ==
    {NoHeader, <<Piece("attachment", FALSE)>>}
    \cup {<<Piece("attachment; ", FALSE), Piece(n, TRUE)>> : n \in ServerNames}

\* str.strip('"'): the text without the quotes around it
StripQuotes(piece) == piece.text

NoBody == ""
NoResult == [kind |-> "none", exc |-> "", status |-> 0, body |-> NoBody,
             disposition |-> NoHeader, chunks |-> 0]
Response(status, body, disposition, chunks) ==
    [kind |-> "response", exc |-> "", status |-> status, body |-> body,
     disposition |-> disposition, chunks |-> chunks]
NetFailure(e) == [NoResult EXCEPT !.kind = "failure", !.exc = e]

\* Response.raise_for_status raises HTTPError for 4xx and 5xx
IsHttpError(status) == 400 <= status /\ status < 600

-----------------------------------------------------------------------------
(* Call frames and outcomes *)

NoDetails == [form |-> "none", text |-> "", json |-> NoJson]
NoDf == [rows |-> 0, nat |-> {}]
NoDest == [given |-> FALSE, path |-> <<>>]
Dest(p) == [given |-> TRUE, path |-> p]
NoFilters == [file_id |-> None, research_project_id |-> None, author |-> None,
              file_type |-> None, experiment_type |-> None, tags_contain |-> None,
              date_after |-> None, date_before |-> None]
NoParams == [k \in {} |-> None]

NoArgs == [data_file_path |-> <<>>, metadata_file_path |-> <<>>, filepath |-> <<>>,
           overwrite |-> FALSE, file_id |-> "", destination_path |-> NoDest,
           filters |-> NoFilters]

NoOutcome == [kind |-> "none", exc |-> "", status_code |-> 0, details |-> NoDetails,
              json |-> NoJson, path |-> <<>>, df |-> NoDf, url |-> NoUrl, warned |-> FALSE]
Returned == [NoOutcome EXCEPT !.kind = "return"]
Raised(e) == [NoOutcome EXCEPT !.kind = "raise", !.exc = e]

HandleNames == {"data_file", "metadata_file"}
NoHandles == [h \in HandleNames |-> "unopened"]

\* entering a function: a new frame, nothing requested or opened yet
StartCall(o, a) ==
    /\ op' = o
    /\ args' = a
    /\ urlAtCall' = API_BASE_URL
    /\ handles' = NoHandles
    /\ requests' = <<>>
    /\ result' = NoResult

-----------------------------------------------------------------------------
(* Configuration accessor *)

\* a set_api_url that assigns a local: the global is left as it was
set_api_url_local(url) ==
    /\ lastSet' = url
    /\ UNCHANGED <<API_BASE_URL, fs, pc, op, args, urlAtCall, target_url, handles,
                   requests, result, outcome>>

set_api_url(url) ==
    /\ API_BASE_URL' = url
    /\ lastSet' = url
    /\ UNCHANGED <<fs, pc, op, args, urlAtCall, target_url, handles, requests,
                   result, outcome>>

get_api_url ==
    /\ pc = "done"
    /\ StartCall("get_api_url", NoArgs)
    /\ target_url' = NoUrl
    /\ outcome' = [Returned EXCEPT !.url = API_BASE_URL]
    /\ UNCHANGED <<API_BASE_URL, lastSet, fs, pc>>

-----------------------------------------------------------------------------
(* Metadata template generator *)

TemplatePaths == MetaPaths \cup {ProjDir}

\* an abort test that forgets the overwrite flag's default and never aborts
TemplateAborts_never(f, filepath, overwrite) == FALSE

\* the guard of the early return
TemplateAborts(f, filepath, overwrite) == Exists(f, filepath) /\ ~overwrite

\* the try block: make the directory, then write the stripped template
WriteTemplate(f, filepath) ==
    LET directory == Parent(filepath)
        made == IF directory # <<>> THEN MakeDirs(f, directory) ELSE [ok |-> TRUE, fs |-> f]
    IN  IF ~made.ok THEN [ok |-> FALSE, fs |-> f]
        ELSE IF ~CanOpenWrite(made.fs, filepath) THEN [ok |-> FALSE, fs |-> made.fs]
        ELSE [ok |-> TRUE, fs |-> [made.fs EXCEPT ![filepath] = Doc(TemplateDoc)]]

generate_metadata_template(filepath, overwrite) ==
    /\ pc = "done"
    /\ StartCall("generate_metadata_template",
                 [NoArgs EXCEPT !.filepath = filepath, !.overwrite = overwrite])
    /\ target_url' = NoUrl
    /\ IF TemplateAborts(fs, filepath, overwrite)
       THEN /\ fs' = fs
            /\ outcome' = [Returned EXCEPT !.warned = TRUE]
       ELSE LET w == WriteTemplate(fs, filepath) IN
            /\ fs' = w.fs
            /\ outcome' = IF w.ok THEN Returned ELSE Raised("FileConfigurationError")
    /\ UNCHANGED <<API_BASE_URL, lastSet, pc>>

-----------------------------------------------------------------------------
(* Upload client *)

UploadEndpoint(url) == <<url, "/uploadfile/">>

\* a check that only asks for the keys to be present
MetadataInvalid_keys(y) ==
    \/ ~y.isdict
    \/ "research_project_id" \notin DOMAIN y.map
    \/ "author" \notin DOMAIN y.map

\* the condition under which the loaded metadata is rejected
MetadataInvalid(y) ==
    \/ ~y.isdict
    \/ ~Truthy(Get(y.map, "research_project_id"))
    \/ ~Truthy(Get(y.map, "author"))

\* a validation that leaves the metadata's existence to the open in the try block
ValidateUpload_nometa(f, d, m) ==
    IF ~Exists(f, d) THEN "FileNotFoundError"
    ELSE IF ~CanOpenRead(f, m) THEN "FileConfigurationError"
    ELSE LET y == SafeLoad(f[m].doc) IN
         IF ~y.ok \/ MetadataInvalid(y) THEN "FileConfigurationError" ELSE "ok"

\* step 1 of upload_file: "ok", or the exception the validation raises.  An
\* exception inside the try block (the open, the parse, the explicit raise)
\* leaves as FileConfigurationError
ValidateUpload(f, d, m) ==
    IF ~Exists(f, d) THEN "FileNotFoundError"
    ELSE IF ~Exists(f, m) THEN "FileNotFoundError"
    ELSE IF ~CanOpenRead(f, m) THEN "FileConfigurationError"
    ELSE LET y == SafeLoad(f[m].doc) IN
         IF ~y.ok \/ MetadataInvalid(y) THEN "FileConfigurationError" ELSE "ok"

\* error_details: the parsed JSON body, else the response text
ErrorDetails(res) ==
    LET j == ParseJson(res.body) IN
    IF j.ok THEN [form |-> "json", text |-> "", json |-> j.val]
    ELSE [form |-> "text", text |-> res.body, json |-> NoJson]

\* an error mapping that wraps every RequestException, transport failures too
UploadOutcome_wrap(res) ==
    IF res.kind = "failure" \/ IsHttpError(res.status)
    THEN [Raised("APIError") EXCEPT !.status_code = res.status, !.details = ErrorDetails(res)]
    ELSE LET j == ParseJson(res.body) IN
         IF j.ok THEN [Returned EXCEPT !.json = j.val] ELSE Raised("JSONDecodeError")

\* an error mapping that always reports the response text
UploadOutcome_text(res) ==
    IF res.kind = "failure" THEN Raised(res.exc)
    ELSE IF IsHttpError(res.status)
    THEN [Raised("APIError") EXCEPT !.status_code = res.status,
            !.details = [form |-> "text", text |-> res.body, json |-> NoJson]]
    ELSE LET j == ParseJson(res.body) IN
         IF j.ok THEN [Returned EXCEPT !.json = j.val] ELSE Raised("JSONDecodeError")

\* the try block around requests.post and its except clauses
UploadOutcome(res) ==
    IF res.kind = "failure" THEN Raised(res.exc)
    ELSE IF IsHttpError(res.status)
    THEN [Raised("APIError") EXCEPT !.status_code = res.status, !.details = ErrorDetails(res)]
    ELSE LET j == ParseJson(res.body) IN
         IF j.ok THEN [Returned EXCEPT !.json = j.val] ELSE Raised("JSONDecodeError")

UploadDataPaths == DataPaths \cup {ProjDir}
UploadBodies == {IdBody, DetailBody, TextBody}

upload_file(data_file_path, metadata_file_path) ==
    /\ pc = "done"
    /\ StartCall("upload_file",
                 [NoArgs EXCEPT !.data_file_path = data_file_path,
                                !.metadata_file_path = metadata_file_path])
    /\ target_url' = NoUrl
    /\ LET v == ValidateUpload(fs, data_file_path, metadata_file_path) IN
       IF v = "ok"
       THEN pc' = "up_prepare" /\ outcome' = NoOutcome
       ELSE pc' = "done" /\ outcome' = Raised(v)
    /\ UNCHANGED <<API_BASE_URL, lastSet, fs>>

\* step 2 up to the request: read the base URL, open both files in binary
\* mode.  An open fails when the path is no regular file, and may fail for
\* reasons outside the program (descriptor limit, permissions, a file removed
\* since the validation): env names the open that does
up_prepare ==
    /\ pc = "up_prepare"
    /\ target_url' = API_BASE_URL
    /\ \E env \in {"ok"} \cup HandleNames :
         LET dataOk == CanOpenRead(fs, args.data_file_path) /\ env # "data_file"
             metaOk == CanOpenRead(fs, args.metadata_file_path) /\ env # "metadata_file"
         IN  IF ~dataOk
             THEN /\ handles' = handles
                  /\ outcome' = Raised("OSError")
                  /\ pc' = "done"
             ELSE IF ~metaOk
             THEN /\ handles' = [handles EXCEPT !["data_file"] = "open"]
                  /\ outcome' = Raised("OSError")
                  /\ pc' = "done"
             ELSE /\ handles' = [h \in HandleNames |-> "open"]
                  /\ outcome' = outcome
                  /\ pc' = "up_post"
    /\ UNCHANGED <<API_BASE_URL, lastSet, fs, op, args, urlAtCall, requests, result>>

up_post ==
    /\ pc = "up_post"
    /\ requests' = Append(requests, [method |-> "POST", url |-> UploadEndpoint(target_url),
                                     params |-> NoParams])
    /\ \/ \E e \in NetFailures : result' = NetFailure(e)
       \/ \E st \in Statuses, b \in UploadBodies : result' = Response(st, b, NoHeader, 0)
    /\ pc' = "up_handle"
    /\ UNCHANGED <<API_BASE_URL, lastSet, fs, op, args, urlAtCall, target_url, handles, outcome>>

\* leaving the try statement: the outcome, and the finally clause
UploadExit ==
    /\ outcome' = UploadOutcome(result)
    /\ handles' = [h \in HandleNames |-> "closed"]
    /\ pc' = "done"
    /\ UNCHANGED <<API_BASE_URL, lastSet, fs, op, args, urlAtCall, target_url, requests, result>>

\* an upload that posts again after a failed attempt
up_handle_retry ==
    /\ pc = "up_handle"
    /\ IF UploadOutcome(result).kind = "raise" /\ Len(requests) < 2
       THEN /\ pc' = "up_post"
            /\ UNCHANGED <<API_BASE_URL, lastSet, fs, op, args, urlAtCall, target_url,
                           handles, requests, result, outcome>>
       ELSE UploadExit

up_handle ==
    /\ pc = "up_handle"
    /\ UploadExit

-----------------------------------------------------------------------------
(* Search client *)

SearchEndpoint(url) == <<url, "/search/">>

FilterSets == {NoFilters, [NoFilters EXCEPT !.author = "wkm"]}

\* active_params: the filters that are not None
ActiveParams(filters) ==
    [k \in {n \in DOMAIN filters : filters[n] # None} |-> filters[k]]

\* pd.to_datetime(errors="coerce") keeps what parses as a date
ValidDates == {"2025-01-15"}

\* the positions of a column that become NaT
NaTRows(dates) == {i \in 1..Len(dates) : dates[i] \notin ValidDates}

\* the try block around requests.get and its except clauses.  An HTTPError
\* is logged and raised again as it is; status_code is APIError's attribute
SearchOutcome(res) ==
    IF res.kind = "failure" THEN Raised(res.exc)
    ELSE IF IsHttpError(res.status) THEN Raised("HTTPError")
    ELSE LET j == ParseJson(res.body) IN
         IF ~j.ok THEN Raised("JSONDecodeError")
         ELSE IF j.val.type = "array" /\ j.val.dates = <<>> THEN Returned
         ELSE IF j.val.type = "object" THEN Raised("ValueError")
         ELSE [Returned EXCEPT !.df = [rows |-> Len(j.val.dates), nat |-> NaTRows(j.val.dates)]]

SearchBodies == {EmptyListBody, RowsBody, DetailBody, TextBody}

search_file(filters) ==
    /\ pc = "done"
    /\ StartCall("search_file", [NoArgs EXCEPT !.filters = filters])
    /\ target_url' = API_BASE_URL
    /\ outcome' = NoOutcome
    /\ pc' = "se_get"
    /\ UNCHANGED <<API_BASE_URL, lastSet, fs>>

se_get ==
    /\ pc = "se_get"
    /\ requests' = Append(requests, [method |-> "GET", url |-> SearchEndpoint(target_url),
                                     params |-> ActiveParams(args.filters)])
    /\ \/ \E e \in NetFailures : result' = NetFailure(e)
       \/ \E st \in Statuses, b \in SearchBodies : result' = Response(st, b, NoHeader, 0)
    /\ pc' = "se_handle"
    /\ UNCHANGED <<API_BASE_URL, lastSet, fs, op, args, urlAtCall, target_url, handles, outcome>>

se_handle ==
    /\ pc = "se_handle"
    /\ outcome' = SearchOutcome(result)
    /\ pc' = "done"
    /\ UNCHANGED <<API_BASE_URL, lastSet, fs, op, args, urlAtCall, target_url, handles,
                   requests, result>>

-----------------------------------------------------------------------------
(* Download client *)

DownloadEndpoint(url, file_id) == <<url, "/download/", file_id, "/">>

Destinations == {NoDest, Dest(OutPath)}

\* final_dest_path
FinalDestPath(destination_path) ==
    IF destination_path.given THEN destination_path.path ELSE DefaultDownloads

\* save_directory
SaveDirectory(f, final_dest_path) ==
    IF IsDir(f, final_dest_path) THEN final_dest_path ELSE Parent(final_dest_path)

\* the name taken from the content-disposition header, else {file_id}.dat
DownloadName(disposition, file_id) ==
    IF disposition # NoHeader /\ Len(disposition) >= 2
    THEN StripQuotes(disposition[2])
    ELSE DatName(file_id)

\* final_save_path
FinalSavePath(f, final_dest_path, disposition, file_id) ==
    IF IsDir(f, final_dest_path)
    THEN Append(final_dest_path, DownloadName(disposition, file_id))
    ELSE final_dest_path

\* api_detail: the "detail" of a JSON object body, else the response text
ApiDetail(res) ==
    LET j == ParseJson(res.body) IN
    IF j.ok /\ j.val.type = "object" /\ j.val.detail # None THEN j.val.detail ELSE res.body

\* the except clause for HTTPError: a plain Exception whose message holds the
\* status and the detail
DownloadHttpError(res) ==
    [Raised("Exception") EXCEPT
        !.details = [form |-> "message", text |-> ApiDetail(res), json |-> NoJson]]

DownloadErrorBodies == {DetailBody, TextBody}

download_file(file_id, destination_path) ==
    /\ pc = "done"
    /\ StartCall("download_file",
                 [NoArgs EXCEPT !.file_id = file_id, !.destination_path = destination_path])
    /\ target_url' = API_BASE_URL
    /\ LET made == MakeDirs(fs, SaveDirectory(fs, FinalDestPath(destination_path))) IN
       IF made.ok
       THEN fs' = made.fs /\ outcome' = NoOutcome /\ pc' = "dl_get"
       ELSE fs' = fs /\ outcome' = Raised("FileExistsError") /\ pc' = "done"
    /\ UNCHANGED <<API_BASE_URL, lastSet>>

dl_get ==
    /\ pc = "dl_get"
    /\ requests' = Append(requests, [method |-> "GET",
                                     url |-> DownloadEndpoint(target_url, args.file_id),
                                     params |-> NoParams])
    /\ \/ \E e \in NetFailures : result' = NetFailure(e)
       \/ \E st \in {x \in Statuses : IsHttpError(x)}, b \in DownloadErrorBodies :
            result' = Response(st, b, NoHeader, 0)
       \/ \E st \in {x \in Statuses : ~IsHttpError(x)}, d \in Dispositions, n \in 0..MaxChunks :
            result' = Response(st, NoBody, d, n)
    /\ pc' = "dl_recv"
    /\ UNCHANGED <<API_BASE_URL, lastSet, fs, op, args, urlAtCall, target_url, handles, outcome>>

\* the with block: raise_for_status, pick the file, stream the chunks into
\* it.  The connection may break after any chunk
dl_recv ==
    /\ pc = "dl_recv"
    /\ pc' = "done"
    /\ IF result.kind = "failure"
       THEN fs' = fs /\ outcome' = Raised(result.exc)
       ELSE IF IsHttpError(result.status)
       THEN fs' = fs /\ outcome' = DownloadHttpError(result)
       ELSE LET final_save_path ==
                    FinalSavePath(fs, FinalDestPath(args.destination_path),
                                  result.disposition, args.file_id)
            IN  IF ~CanOpenWrite(fs, final_save_path)
                THEN fs' = fs /\ outcome' = Raised("OSError")
                ELSE \E k \in 0..result.chunks :
                       /\ fs' = [fs EXCEPT ![final_save_path] = Streamed(k)]
                       /\ outcome' = IF k = result.chunks
                                     THEN [Returned EXCEPT !.path = final_save_path]
                                     ELSE Raised("ChunkedEncodingError")
    /\ UNCHANGED <<API_BASE_URL, lastSet, op, args, urlAtCall, target_url, handles,
                   requests, result>>

-----------------------------------------------------------------------------
(* The program *)

\* the filesystems a call may find: the home and working directories exist
EmptyFs == [p \in AllPaths |-> IF p \in {Cwd, HomeDir} THEN DirNode ELSE NoNode]

InitFs ==
    {f \in {[EmptyFs EXCEPT ![DefaultDownloads] = dl, ![ProjDir] = pj,
                            ![<<"meta.yaml">>] = m, ![<<"proj", "meta.yaml">>] = pm,
                            ![<<"data.bin">>] = d] :
                dl \in {NoNode, DirNode}, pj \in {NoNode, DirNode},
                m \in {NoNode} \cup {Doc(x) : x \in MetaDocs},
                pm \in {NoNode, Doc("VALID")},
                d \in {NoNode, Doc("DATA")}} :
        WellFormed(f)}

\* the filesystems of the network runs: both upload inputs and the downloads directory are there
NetFs ==
    {f \in InitFs : /\ f[DefaultDownloads] = DirNode
                    /\ f[ProjDir] = NoNode
                    /\ f[<<"data.bin">>] = Doc("DATA")
                    /\ f[<<"meta.yaml">>] \in {Doc("VALID"), Doc("BAD")}}

\* the filesystems of the download runs: the target directories may be missing
DownloadFs ==
    {f \in InitFs : /\ f[<<"data.bin">>] = NoNode
                    /\ f[<<"meta.yaml">>] = NoNode
                    /\ f[<<"proj", "meta.yaml">>] = NoNode}

\* the module as imported: the base URL is the environment's INGEST_API_URL or
\* the default, nothing has been called
InitWith(filesystems) ==
    /\ API_BASE_URL \in Urls
    /\ lastSet = API_BASE_URL
    /\ fs \in filesystems
    /\ pc = "done"
    /\ op = "none"
    /\ args = NoArgs
    /\ urlAtCall = API_BASE_URL
    /\ target_url = NoUrl
    /\ handles = NoHandles
    /\ requests = <<>>
    /\ result = NoResult
    /\ outcome = NoOutcome

Init == InitWith(NetFs)

InitUpload == InitWith(InitFs)

InitTemplate == InitWith(InitFs)

InitDownload == InitWith(DownloadFs)

\* the configuration accessor and the three network clients
Next ==
    \/ \E url \in Urls : set_api_url(url)
    \/ get_api_url
    \/ \E d \in UploadDataPaths, m \in MetaPaths : upload_file(d, m)
    \/ up_prepare
    \/ up_post
    \/ up_handle
    \/ \E f \in FilterSets : search_file(f)
    \/ se_get
    \/ se_handle
    \/ \E i \in FileIds : download_file(i, NoDest)
    \/ dl_get
    \/ dl_recv

\* uploads of files the template generator may have written
NextUpload ==
    \/ \E p \in TemplatePaths, ow \in BOOLEAN : generate_metadata_template(p, ow)
    \/ \E d \in UploadDataPaths, m \in MetaPaths : upload_file(d, m)
    \/ up_prepare
    \/ up_post
    \/ up_handle

NextTemplate ==
    \E p \in TemplatePaths, ow \in BOOLEAN : generate_metadata_template(p, ow)

NextDownload ==
    \/ \E i \in FileIds, d \in Destinations : download_file(i, d)
    \/ dl_get
    \/ dl_recv

Spec == Init /\ [][Next]_vars

SpecUpload == InitUpload /\ [][NextUpload]_vars

SpecTemplate == InitTemplate /\ [][NextTemplate]_vars

SpecDownload == InitDownload /\ [][NextDownload]_vars

-----------------------------------------------------------------------------
(* Properties *)

NetworkOps == {"upload_file", "search_file", "download_file"}

IsSuccessStatus(status) == 200 <= status /\ status <= 299
IsErrorStatus(status) == 400 <= status /\ status <= 599

\* C1: an upload_file whose data file or metadata file is missing ends with
\* FileNotFoundError, and the call has issued no HTTP request and opened no
\* upload handle.
C1_MissingFileFailsBeforeNetwork ==
    (/\ op = "upload_file"
     /\ \/ ~Exists(fs, args.data_file_path)
        \/ ~Exists(fs, args.metadata_file_path))
    => /\ pc = "done"
       /\ outcome = Raised("FileNotFoundError")
       /\ requests = <<>>
       /\ handles = NoHandles

C1_Witness ==
    /\ op = "upload_file"
    /\ Exists(fs, args.data_file_path)
    /\ ~Exists(fs, args.metadata_file_path)
    /\ outcome.exc = "FileNotFoundError"
    /\ requests = <<>>

\* C2: when upload_file has returned or raised, no binary handle it opened
\* is still open, whichever way the call ended.
C2_HandlesClosedOnExit ==
    (pc = "done" /\ op = "upload_file") => \A h \in HandleNames : handles[h] # "open"

\* C3: generate_metadata_template with overwrite=False on a path that exists
\* changes nothing in the filesystem (no content, no directory) and returns
\* with a warning; no overwrite=False call changes an existing file.
C3_NoOverwriteLeavesFile ==
    [][\A p \in TemplatePaths :
          generate_metadata_template(p, FALSE) =>
             /\ Exists(fs, p) => /\ fs' = fs
                                 /\ outcome'.kind = "return"
                                 /\ outcome'.warned
             /\ \A q \in AllPaths : IsFile(fs, q) => fs'[q] = fs[q]]_vars

C3_Witness ==
    /\ op = "generate_metadata_template"
    /\ ~args.overwrite
    /\ outcome.kind = "return" /\ outcome.warned
    /\ fs[args.filepath] = Doc("VALID")

\* the metadata at m is no YAML mapping with non-empty research_project_id and author
C4_BadMetadata(f, m) ==
    \/ ~IsFile(f, m)
    \/ LET y == SafeLoad(f[m].doc) IN
       \/ ~y.ok
       \/ ~y.isdict
       \/ "research_project_id" \notin DOMAIN y.map
       \/ "author" \notin DOMAIN y.map
       \/ y.map["research_project_id"] = ""
       \/ y.map["author"] = ""

\* C4: an upload_file whose two files exist but whose metadata is no YAML
\* mapping with non-empty research_project_id and author ends with
\* FileConfigurationError, with no HTTP request issued and no upload handle
\* opened.
C4_BadMetadataIsConfigurationError ==
    (/\ op = "upload_file"
     /\ Exists(fs, args.data_file_path)
     /\ Exists(fs, args.metadata_file_path)
     /\ C4_BadMetadata(fs, args.metadata_file_path))
    => /\ pc = "done"
       /\ outcome = Raised("FileConfigurationError")
       /\ requests = <<>>
       /\ handles = NoHandles

C4_Witness ==
    /\ op = "upload_file"
    /\ Exists(fs, args.data_file_path)
    /\ fs[args.metadata_file_path] = Doc(TemplateDoc)
    /\ outcome.exc = "FileConfigurationError"
    /\ requests = <<>>

\* the APIError the claim describes for a response
C5_ApiError(res) ==
    [Raised("APIError") EXCEPT
        !.status_code = res.status,
        !.details = IF ParseJson(res.body).ok
                    THEN [form |-> "json", text |-> "", json |-> ParseJson(res.body).val]
                    ELSE [form |-> "text", text |-> res.body, json |-> NoJson]]

C6_DefaultDownloadLandsInDownloads ==
    (/\ pc = "done" /\ op = "download_file"
     /\ ~args.destination_path.given
     /\ result.kind = "response" /\ IsSuccessStatus(result.status)
     /\ outcome.exc # "ChunkedEncodingError")
    => /\ outcome.kind = "return"
       /\ IsDir(fs, DefaultDownloads)
       /\ \E n \in DownloadNames :
            /\ outcome.path = Append(DefaultDownloads, n)
            /\ n = IF Len(result.disposition) >= 2
                   THEN result.disposition[2].text
                   ELSE args.file_id \o ".dat"
       /\ fs[outcome.path] = Streamed(result.chunks)

\* the URL a call of operation o with base URL u requests
C7_Url(o, u, a) ==
    CASE o = "upload_file" -> <<u, "/uploadfile/">>
      [] o = "search_file" -> <<u, "/search/">>
      [] OTHER -> <<u, "/download/", a.file_id, "/">>

\* C7 as stated: a call sends its request to the base URL that was set when
\* the call started, whatever set_api_url does while it runs.
C7_TargetsUrlAtCall ==
    (op \in NetworkOps /\ requests # <<>>)
    => \A i \in 1..Len(requests) : requests[i].url = C7_Url(op, urlAtCall, args)

\* C7 as amended: get_api_url returns the argument of the latest
\* set_api_url; a call reads the base URL once (search_file and
\* download_file on entry, upload_file after its validation), the value read
\* is that of the latest set_api_url, a later set_api_url does not change
\* it, and every request of the call goes to the endpoint under it.
C7_TargetsUrlRead ==
    /\ [](op \in NetworkOps =>
            /\ \A i \in 1..Len(requests) : requests[i].url = C7_Url(op, target_url, args)
            /\ op \in {"search_file", "download_file"} => target_url = urlAtCall)
    /\ [][get_api_url => outcome'.url = lastSet]_vars
    /\ [][target_url' # target_url /\ target_url' # NoUrl => target_url' = lastSet]_vars
    /\ [][pc # "done" /\ target_url # NoUrl => target_url' = target_url]_vars

C7_Witness ==
    /\ pc = "done" /\ op = "upload_file"
    /\ Len(requests) = 1
    /\ requests[1].url = <<"http://lake.example", "/uploadfile/">>
    /\ API_BASE_URL = "http://lake.example/api"
    /\ lastSet = "http://lake.example/api"

\* C8: a 4xx or 5xx answer to search_file or download_file reaches the
\* caller as APIError carrying the status code, as it does in upload_file.
C8_ErrorStatusIsAPIErrorEverywhere ==
    (/\ pc = "done" /\ op \in NetworkOps
     /\ result.kind = "response" /\ IsErrorStatus(result.status))
    => /\ outcome.exc = "APIError"
       /\ outcome.status_code = result.status

C10_TransportFailureUnwrapped ==
    (pc = "done" /\ op \in NetworkOps)
    => /\ result.kind = "failure" => outcome = Raised(result.exc)
       /\ (result.kind = "response" /\ ~IsSuccessStatus(result.status))
             => outcome.exc \notin NetFailures

C10_Witness ==
    /\ pc = "done" /\ op = "download_file"
    /\ result.kind = "failure" /\ result.exc = "Timeout"
    /\ outcome = Raised("Timeout")

=============================================================================
